---- MODULE Spec2Model ----
(***************************************************************************)
(* A model of hawtk: the tvec arithmetic (vec.hpp), the widget child       *)
(* container (widget.hpp), and the context's frame cycle (context.cpp)     *)
(* against the renderer interface (renderer.hpp).                          *)
(*                                                                         *)
(* Four specifications share the module:                                   *)
(*   SpecVec   value-returning tvec operators on uvec2                     *)
(*   SpecSeq   the sequence operations of one widget                       *)
(*   SpecTree  the sequence operations on every widget of a widget set     *)
(*   SpecCtx   context::update / context::draw over a recording renderer   *)
(***************************************************************************)
EXTENDS Integers, Sequences, FiniteSets, TLC

VARIABLES
    \* ---- tvec arithmetic
    in,        \* the operands as drawn: [u |-> vector, v |-> vector or scalar]
    u,         \* the left operand object  (tvec<unsigned int, 2>)
    v,         \* the right operand object (a tvec or a scalar, template U)
    t,         \* the temporary returned by the first operator
    r,         \* the vector returned by the second operator
    pc,        \* which expression has been evaluated so far
    \* ---- widgets
    children,  \* widget::_children of every widget
    created,   \* the widgets that are constructed and not yet destroyed
    held,      \* the widgets the application holds a widget_pointer to
    \* ---- bookkeeping of SpecSeq
    refList,   \* the reference ordered list of the root's children
    nAdded,    \* children appended or inserted into the root so far
    nErased,   \* children erased from the root so far
    call,      \* the last member function called, with its outcome
    \* ---- bookkeeping of SpecTree
    cyclePassed,  \* some push_back/insert was handed the receiver or an ancestor
    ownedPassed,  \* some push_back/insert was handed a widget that is already a child
    \* ---- context and renderer
    calls,     \* the renderer member functions invoked, in order
    drawn,     \* the widgets whose widget::draw was invoked, in order
    trace      \* the context member functions called, in order

vecVars  == <<in, u, v, t, r, pc>>
treeVars == <<children, created, held>>
seqBook  == <<refList, nAdded, nErased, call>>
treeBook == <<cyclePassed, ownedPassed>>
ctxVars  == <<calls, drawn, trace>>
vars     == <<vecVars, treeVars, seqBook, treeBook, ctxVars>>

----------------------------------------------------------------------------
(* Bounds of the model *)

\* width of unsigned int in the model (32 in the build)
WordBits == 3
\* widgets of SpecSeq and SpecTree
MaxWidgets == 3
\* child slots over all widgets
MaxSlots == 3
\* cap of the nAdded counter
MaxAdded == 4
\* widgets of the tree a context draws
CtxWidgets == 4
\* context calls per behaviour
MaxCalls == 4

(* Program constants *)

\* uvec2 = tvec<unsigned int, 2>, vec2 = tvec<float, 2>
Dim == 2
\* color = tvec<float, 4>
ColorDim == 4

Modulus == 2 ^ WordBits
Word    == 0 .. (Modulus - 1)

----------------------------------------------------------------------------
(* tvec<unsigned int, N>: a vector is a tuple of N words *)

UVec == [1 .. Dim -> Word]

\* explicit tvec(const value_type& value): every element set to value
tvec_fill(value, n) == [i \in 1 .. n |-> value]

\* tvec& operator+=(const tvec& rhs)
plus_assign_vec(this, rhs) ==
    [i \in DOMAIN this |-> (this[i] + rhs[i]) % Modulus]

\* tvec& operator+=(const value_type& rhs)
plus_assign_scalar(this, rhs) ==
    [i \in DOMAIN this |-> (this[i] + rhs) % Modulus]

\* tvec& operator-=(const tvec& rhs)
minus_assign_vec(this, rhs) ==
    [i \in DOMAIN this |-> (this[i] - rhs[i]) % Modulus]

\* tvec& operator-=(const value_type& rhs)
minus_assign_scalar(this, rhs) ==
    [i \in DOMAIN this |-> (this[i] - rhs) % Modulus]

\* tvec& operator*=(const tvec& rhs)
times_assign_vec(this, rhs) ==
    [i \in DOMAIN this |-> (this[i] * rhs[i]) % Modulus]

\* a loop that starts at the second element
times_assign_scalar_skip(this, rhs) ==
    [i \in DOMAIN this |-> IF i = 1 THEN this[i] ELSE (this[i] * rhs) % Modulus]

\* tvec& operator*=(const value_type& rhs)
times_assign_scalar(this, rhs) ==
    [i \in DOMAIN this |-> (this[i] * rhs) % Modulus]

\* tvec& operator/=(const tvec& rhs)
div_assign_vec(this, rhs) ==
    [i \in DOMAIN this |-> this[i] \div rhs[i]]

\* tvec& operator/=(const value_type& rhs)
div_assign_scalar(this, rhs) ==
    [i \in DOMAIN this |-> this[i] \div rhs]

(* The value-returning operators take const references, copy lhs into      *)
(* result, apply the compound assignment to the copy and return it.  U is  *)
(* either the vector or the scalar type.  The record gives the operands    *)
(* and the returned vector when the operator returns.                      *)

operator_plus(lhs, rhs) ==
    LET result == lhs
    IN  [lhs |-> lhs, rhs |-> rhs,
         result |-> IF rhs.kind = "vec" THEN plus_assign_vec(result, rhs.val)
                                        ELSE plus_assign_scalar(result, rhs.val)]

\* result += rhs where result -= rhs was meant
operator_minus_adds(lhs, rhs) ==
    operator_plus(lhs, rhs)

operator_minus(lhs, rhs) ==
    LET result == lhs
    IN  [lhs |-> lhs, rhs |-> rhs,
         result |-> IF rhs.kind = "vec" THEN minus_assign_vec(result, rhs.val)
                                        ELSE minus_assign_scalar(result, rhs.val)]

operator_times(lhs, rhs) ==
    LET result == lhs
    IN  [lhs |-> lhs, rhs |-> rhs,
         result |-> IF rhs.kind = "vec" THEN times_assign_vec(result, rhs.val)
                                        ELSE times_assign_scalar(result, rhs.val)]

operator_div(lhs, rhs) ==
    LET result == lhs
    IN  [lhs |-> lhs, rhs |-> rhs,
         result |-> IF rhs.kind = "vec" THEN div_assign_vec(result, rhs.val)
                                        ELSE div_assign_scalar(result, rhs.val)]

\* the right operand holds no zero (integer division by zero is undefined)
NonZero(rhs) ==
    IF rhs.kind = "vec" THEN \A i \in DOMAIN rhs.val : rhs.val[i] # 0
                        ELSE rhs.val # 0

Operands ==
    [kind : {"vec"}, val : UVec] \cup [kind : {"scalar"}, val : Word]

NoVec == <<>>

VecIdle ==
    /\ in = [u |-> tvec_fill(0, Dim), v |-> [kind |-> "scalar", val |-> 0]]
    /\ u = in.u /\ v = in.v
    /\ t = NoVec /\ r = NoVec /\ pc = "idle"

TreeIdle ==
    /\ children = [w \in 1 .. MaxWidgets |-> <<>>]
    /\ created = {1} /\ held = {1}

SeqBookIdle ==
    /\ refList = <<>> /\ nAdded = 0 /\ nErased = 0
    /\ call = [op |-> "none"]

TreeBookIdle ==
    /\ cyclePassed = FALSE /\ ownedPassed = FALSE

CtxIdle ==
    /\ calls = <<>> /\ drawn = <<>> /\ trace = <<>>

InitVec ==
    /\ in \in [u : UVec, v : Operands]
    /\ u = in.u /\ v = in.v
    /\ t = NoVec /\ r = NoVec /\ pc = "start"
    /\ TreeIdle /\ SeqBookIdle /\ TreeBookIdle /\ CtxIdle

\* t = u + v
Add ==
    /\ pc = "start"
    /\ LET o == operator_plus(u, v)
       IN  u' = o.lhs /\ v' = o.rhs /\ t' = o.result
    /\ pc' = "add"
    /\ UNCHANGED <<in, r, treeVars, seqBook, treeBook, ctxVars>>

\* r = t - v, so r = (u + v) - v
Sub ==
    /\ pc = "add"
    /\ LET o == operator_minus(t, v)
       IN  t' = o.lhs /\ v' = o.rhs /\ r' = o.result
    /\ pc' = "add_sub"
    /\ UNCHANGED <<in, u, treeVars, seqBook, treeBook, ctxVars>>

\* t = u * v
Mul ==
    /\ pc = "start"
    /\ LET o == operator_times(u, v)
       IN  u' = o.lhs /\ v' = o.rhs /\ t' = o.result
    /\ pc' = "mul"
    /\ UNCHANGED <<in, r, treeVars, seqBook, treeBook, ctxVars>>

\* r = t / v, so r = (u * v) / v
Div ==
    /\ pc = "mul"
    /\ NonZero(v)
    /\ LET o == operator_div(t, v)
       IN  t' = o.lhs /\ v' = o.rhs /\ r' = o.result
    /\ pc' = "mul_div"
    /\ UNCHANGED <<in, u, treeVars, seqBook, treeBook, ctxVars>>

NextVec == Add \/ Sub \/ Mul \/ Div

SpecVec == InitVec /\ [][NextVec]_vars

----------------------------------------------------------------------------
C7_MulDivRoundTrip ==
    (pc = "mul_div" /\ in.v.kind = "scalar") => r = in.u

\* no element of u * s exceeds the largest word
NoWrap ==
    \A i \in 1 .. Dim : in.u[i] * in.v.val < Modulus

(* C7 amended: for every uvec2 u and every non-zero scalar s such that no  *)
(* product u[i] * s wraps (u[i] * s < 2^w), (u * s) / s == u elementwise.  *)
C7_MulDivRoundTripNoWrap ==
    (pc = "mul_div" /\ in.v.kind = "scalar" /\ NoWrap) => r = in.u

\* (u * s) / s has been evaluated for a non-zero u, s >= 2, without wrapping
C7_Witness ==
    /\ pc = "mul_div" /\ in.v.kind = "scalar" /\ in.v.val >= 2
    /\ \A i \in 1 .. Dim : in.u[i] >= 1
    /\ NoWrap
    /\ r = in.u

----------------------------------------------------------------------------
(* widget: std::vector<widget_pointer> _children.  A widget_pointer is     *)
(* modelled by the identity of the widget it points to; an iterator or a   *)
(* size_type position by its offset from begin().                          *)

Widgets  == 1 .. MaxWidgets
Root     == 1
NoWidget == 0

Range(s) == {s[i] : i \in DOMAIN s}

\* _children.push_back(widget)
vec_push_back(s, w) ==
    [i \in 1 .. (Len(s) + 1) |-> IF i <= Len(s) THEN s[i] ELSE w]

\* an insert that moves the tail up and never stores the new element
vec_insert_unwritten(s, pos, w) ==
    [i \in 1 .. (Len(s) + 1) |->
        IF i <= pos THEN s[i]
        ELSE IF i = pos + 1 THEN (IF pos < Len(s) THEN s[i] ELSE w)
        ELSE s[i - 1]]

\* _children.insert(pos, widget): the elements from pos on move up by one
vec_insert(s, pos, w) ==
    [i \in 1 .. (Len(s) + 1) |->
        IF i <= pos THEN s[i]
        ELSE IF i = pos + 1 THEN w
        ELSE s[i - 1]]

\* _children.erase(pos): the elements after pos move down by one
vec_erase(s, pos) ==
    [i \in 1 .. (Len(s) - 1) |-> IF i <= pos THEN s[i] ELSE s[i + 1]]

\* an erase of [first, last] that takes the element at last as well
vec_erase_range_closed(s, first, last) ==
    LET n == IF last < Len(s) THEN last - first + 1 ELSE last - first
    IN  [i \in 1 .. (Len(s) - n) |-> IF i <= first THEN s[i] ELSE s[i + n]]

\* _children.erase(first, last): the half-open range [first, last) goes
vec_erase_range(s, first, last) ==
    [i \in 1 .. (Len(s) - (last - first)) |->
        IF i <= first THEN s[i] ELSE s[i + (last - first)]]

\* _children.clear()
vec_clear(s) == <<>>

\* operator[] where at() was meant: no range check, no error reported
vec_at_unchecked(s, pos) ==
    [err |-> "none", child |-> IF pos < Len(s) THEN s[pos + 1] ELSE NoWidget]

\* _children.at(pos): throws std::out_of_range unless pos < size()
vec_at(s, pos) ==
    IF pos >= Len(s) THEN [err |-> "out_of_range", child |-> NoWidget]
                     ELSE [err |-> "none", child |-> s[pos + 1]]

\* size(), begin(), end(), front(), back()
widget_size(s)  == Len(s)
widget_begin(s) == 0
widget_end(s)   == Len(s)
widget_front(s) == s[1]
widget_back(s)  == s[Len(s)]

\* the children visited by for (it = begin(); it != end(); ++it)
RECURSIVE IterateFrom(_, _)
IterateFrom(s, it) ==
    IF it = widget_end(s) THEN <<>>
    ELSE <<s[it + 1]>> \o IterateFrom(s, it + 1)

Iterate(s) == IterateFrom(s, widget_begin(s))

\* the member functions, on the _children of the receiver self
\* the receiver is stored in the argument's children
widget_push_back_swapped(c, self, w) ==
    [c EXCEPT ![w] = vec_push_back(@, self)]

widget_push_back(c, self, w) ==
    [c EXCEPT ![self] = vec_push_back(@, w)]

widget_insert(c, self, pos, w) ==
    [c EXCEPT ![self] = vec_insert(@, pos, w)]

widget_erase(c, self, pos) ==
    [c EXCEPT ![self] = vec_erase(@, pos)]

widget_erase_range(c, self, first, last) ==
    [c EXCEPT ![self] = vec_erase_range(@, first, last)]

widget_clear(c, self) ==
    [c EXCEPT ![self] = vec_clear(@)]

\* _children.emplace_back(std::make_unique<T>(args...)): fresh is the new T,
\* constructed with no children
widget_emplace_back(c, self, fresh) ==
    [c EXCEPT ![fresh] = <<>>, ![self] = vec_push_back(c[self], fresh)]

(* return _children.back(): the expression is the last element of          *)
(* _children, an lvalue of type std::shared_ptr<widget>; the function is   *)
(* declared to return T&.                                                   *)
emplace_back_return(s) ==
    [type |-> "std::shared_ptr<widget>&", pointee |-> widget_back(s)]

(* Ownership: widget_pointer is std::shared_ptr<widget>, so a widget lives *)
(* as long as the application or some _children element points to it; the  *)
(* destructor of a widget destroys its _children.                          *)

Slots(c) == UNION {{<<p, i>> : i \in DOMAIN c[p]} : p \in DOMAIN c}

TotalSlots(c) == Cardinality(Slots(c))

\* the number of _children elements that point to w
Occurrences(c, w) == Cardinality({e \in Slots(c) : c[e[1]][e[2]] = w})

RECURSIVE Teardown(_, _, _)
Teardown(c, cr, h) ==
    LET dead == {w \in cr : w \notin h /\ Occurrences(c, w) = 0}
    IN  IF dead = {} THEN [children |-> c, created |-> cr]
        ELSE Teardown([w \in DOMAIN c |-> IF w \in dead THEN <<>> ELSE c[w]],
                      cr \ dead, h)

\* the widgets reachable from the set S by following child pointers
RECURSIVE Reach(_, _)
Reach(c, S) ==
    LET nxt == S \cup UNION {Range(c[p]) : p \in S}
    IN  IF nxt = S THEN S ELSE Reach(c, nxt)

\* the widgets the application can name: those it holds, and their descendants
Obtainable == Reach(children, held)

Descendants(c, w) == Reach(c, Range(c[w]))

\* the object make_unique constructs
Fresh == CHOOSE w \in Widgets \ created : \A x \in Widgets \ created : w <= x

\* the model's memory: one more child slot is available
HasRoom == TotalSlots(children) < MaxSlots

\* the state after a member function returns, destroyed widgets removed
Commit(c, cr) ==
    LET td == Teardown(c, cr, held)
    IN  children' = td.children /\ created' = td.created /\ held' = held

push_back(self, w)            == Commit(widget_push_back(children, self, w), created)
insert(self, pos, w)          == Commit(widget_insert(children, self, pos, w), created)
erase(self, pos)              == Commit(widget_erase(children, self, pos), created)
erase_range(self, first, last) == Commit(widget_erase_range(children, self, first, last), created)
clear(self)                   == Commit(widget_clear(children, self), created)
emplace_back(self)            == Commit(widget_emplace_back(children, self, Fresh), created \cup {Fresh})

\* the application has constructed widgets 1 .. k and holds them
TreeInit ==
    /\ children = [w \in Widgets |-> <<>>]
    /\ \E k \in Widgets : created = 1 .. k
    /\ held = created

----------------------------------------------------------------------------
(* SpecSeq: the sequence operations of the root widget, beside a           *)
(* reference ordered list                                                   *)

RefInsert(l, pos, w) == SubSeq(l, 1, pos) \o <<w>> \o SubSeq(l, pos + 1, Len(l))

RefErase(l, first, last) == SubSeq(l, 1, first) \o SubSeq(l, last + 1, Len(l))

InitSeq ==
    /\ TreeInit
    /\ SeqBookIdle
    /\ VecIdle /\ TreeBookIdle /\ CtxIdle

Others == <<vecVars, treeBook, ctxVars>>

SeqPushBack ==
    \E w \in Obtainable :
        /\ HasRoom /\ nAdded < MaxAdded
        /\ push_back(Root, w)
        /\ refList' = Append(refList, w)
        /\ nAdded' = nAdded + 1
        /\ call' = [op |-> "push_back"]
        /\ UNCHANGED <<nErased, Others>>

SeqEmplaceBack ==
    /\ HasRoom /\ nAdded < MaxAdded
    /\ Widgets \ created # {}
    /\ emplace_back(Root)
    /\ refList' = Append(refList, Fresh)
    /\ nAdded' = nAdded + 1
    /\ call' = [op |-> "emplace_back", new |-> Fresh,
                ret |-> emplace_back_return(children'[Root])]
    /\ UNCHANGED <<nErased, Others>>

SeqInsert ==
    \E w \in Obtainable, pos \in widget_begin(children[Root]) .. widget_end(children[Root]) :
        /\ HasRoom /\ nAdded < MaxAdded
        /\ insert(Root, pos, w)
        /\ refList' = RefInsert(refList, pos, w)
        /\ nAdded' = nAdded + 1
        /\ call' = [op |-> "insert"]
        /\ UNCHANGED <<nErased, Others>>

SeqErase ==
    \E pos \in widget_begin(children[Root]) .. (widget_end(children[Root]) - 1) :
        /\ erase(Root, pos)
        /\ refList' = RefErase(refList, pos, pos + 1)
        /\ nErased' = nErased + 1
        /\ call' = [op |-> "erase"]
        /\ UNCHANGED <<nAdded, Others>>

SeqEraseRange ==
    \E first \in widget_begin(children[Root]) .. widget_end(children[Root]) :
      \E last \in first .. widget_end(children[Root]) :
        /\ erase_range(Root, first, last)
        /\ refList' = RefErase(refList, first, last)
        /\ nErased' = nErased + (last - first)
        /\ call' = [op |-> "erase_range"]
        /\ UNCHANGED <<nAdded, Others>>

SeqClear ==
    /\ clear(Root)
    /\ refList' = <<>>
    /\ nErased' = nErased + Len(refList)
    /\ call' = [op |-> "clear"]
    /\ UNCHANGED <<nAdded, Others>>

\* at(pos): the child is returned or std::out_of_range reaches the caller
SeqAt ==
    \E pos \in 0 .. (MaxSlots + 1) :
        /\ call' = [op |-> "at", pos |-> pos, ret |-> vec_at(children[Root], pos)]
        /\ UNCHANGED <<treeVars, refList, nAdded, nErased, Others>>

NextSeq ==
    \/ SeqPushBack \/ SeqEmplaceBack \/ SeqInsert
    \/ SeqErase \/ SeqEraseRange \/ SeqClear \/ SeqAt

SpecSeq == InitSeq /\ [][NextSeq]_vars

----------------------------------------------------------------------------
(* C4: after any sequence of push_back, emplace_back, insert, erase(pos),  *)
(* erase(first, last) and clear on one widget, its children are those of   *)
(* the reference ordered list: size() is the number added minus the number *)
(* erased, front() and back() are the first and last surviving child when  *)
(* size() > 0, and iteration from begin() to end() visits the survivors in *)
(* the list's order.                                                        *)
C4_SequenceMatchesReference ==
    LET s == children[Root]
    IN  /\ widget_size(s) = nAdded - nErased
        /\ widget_size(s) = Len(refList)
        /\ widget_size(s) > 0 =>
              /\ widget_front(s) = Head(refList)
              /\ widget_back(s) = refList[Len(refList)]
        /\ Iterate(s) = refList

\* an insert before the first child has just followed an erase, and the
\* first and last child differ
C4_Witness ==
    /\ call.op = "insert"
    /\ nErased >= 1
    /\ Len(refList) >= 2
    /\ Head(refList) # refList[Len(refList)]
    /\ Iterate(children[Root]) = refList

\* erase(pos) on a widget with a single child has left size() == 0
C4_WitnessSingleErase ==
    /\ call.op = "erase" /\ nAdded = 1 /\ nErased = 1
    /\ widget_size(children[Root]) = 0

(* C5: at(pos) with pos >= size() reports an error to the caller instead   *)
(* of a child and leaves the child sequence unchanged; with pos < size()   *)
(* it returns the child at index pos and reports no error.                 *)
C5_AtIsChecked ==
    [][call'.op = "at" =>
          /\ children' = children
          /\ call'.pos >= widget_size(children[Root]) =>
                /\ call'.ret.err = "out_of_range"
                /\ call'.ret.child = NoWidget
          /\ call'.pos < widget_size(children[Root]) =>
                /\ call'.ret.err = "none"
                /\ call'.ret.child = refList[call'.pos + 1]]_vars

\* at(size()) was called on a widget that has children, and threw
C5_Witness ==
    /\ call.op = "at"
    /\ widget_size(children[Root]) > 0
    /\ call.pos = widget_size(children[Root])
    /\ call.ret.err = "out_of_range"

(* C8: emplace_back<T>(args) creates one new widget and appends it as the  *)
(* last child (size() grows by 1, back() is the new widget, the children   *)
(* present before keep their positions), and the reference it returns, a   *)
(* T&, denotes the new child.                                               *)
C8_EmplaceBackReturnsChild ==
    [][call'.op = "emplace_back" =>
          /\ call'.new \notin created /\ call'.new \in created'
          /\ widget_size(children'[Root]) = widget_size(children[Root]) + 1
          /\ widget_back(children'[Root]) = call'.new
          /\ \A i \in 1 .. Len(children[Root]) : children'[Root][i] = children[Root][i]
          /\ call'.ret = [type |-> "T&", pointee |-> call'.new]]_vars

----------------------------------------------------------------------------
(* SpecTree: the sequence operations on every widget the application can   *)
(* name, with any widget it can name as the argument                       *)

InitTree ==
    /\ TreeInit
    /\ TreeBookIdle
    /\ VecIdle /\ SeqBookIdle /\ CtxIdle

Rest == <<vecVars, seqBook, ctxVars>>

\* w is the receiver or one of its ancestors
AncestorOrSelf(w, self) == self \in Reach(children, {w})

\* w is a child of some widget already
Owned(w) == Occurrences(children, w) > 0

TreePushBack ==
    \E self \in Obtainable, w \in Obtainable :
        /\ HasRoom
        /\ push_back(self, w)
        /\ cyclePassed' = (cyclePassed \/ AncestorOrSelf(w, self))
        /\ ownedPassed' = (ownedPassed \/ Owned(w))
        /\ UNCHANGED Rest

TreeInsert ==
    \E self \in Obtainable, w \in Obtainable :
      \E pos \in widget_begin(children[self]) .. widget_end(children[self]) :
        /\ HasRoom
        /\ insert(self, pos, w)
        /\ cyclePassed' = (cyclePassed \/ AncestorOrSelf(w, self))
        /\ ownedPassed' = (ownedPassed \/ Owned(w))
        /\ UNCHANGED Rest

TreeEmplaceBack ==
    \E self \in Obtainable :
        /\ HasRoom
        /\ Widgets \ created # {}
        /\ emplace_back(self)
        /\ UNCHANGED <<treeBook, Rest>>

TreeErase ==
    \E self \in Obtainable :
      \E pos \in widget_begin(children[self]) .. (widget_end(children[self]) - 1) :
        /\ erase(self, pos)
        /\ UNCHANGED <<treeBook, Rest>>

TreeEraseRange ==
    \E self \in Obtainable :
      \E first \in widget_begin(children[self]) .. widget_end(children[self]) :
        \E last \in first .. widget_end(children[self]) :
          /\ erase_range(self, first, last)
          /\ UNCHANGED <<treeBook, Rest>>

TreeClear ==
    \E self \in Obtainable :
        /\ clear(self)
        /\ UNCHANGED <<treeBook, Rest>>

NextTree ==
    \/ TreePushBack \/ TreeInsert \/ TreeEmplaceBack
    \/ TreeErase \/ TreeEraseRange \/ TreeClear

SpecTree == InitTree /\ [][NextTree]_vars

----------------------------------------------------------------------------
\* no widget is reachable from itself by following child pointers
Acyclic == \A w \in Widgets : w \notin Descendants(children, w)

\* no widget is pointed to by two _children elements
Exclusive == \A w \in Widgets : Occurrences(children, w) <= 1

(* C9 as claimed: after any sequence of push_back, insert, emplace_back,   *)
(* erase and clear calls, no widget is reachable from itself by following  *)
(* child references.                                                        *)
C9_TreeAcyclic == Acyclic

(* C9 amended: no widget is reachable from itself as long as no push_back  *)
(* or insert call was handed the receiver itself or one of its ancestors;  *)
(* emplace_back, erase and clear never close a cycle.                      *)
C9_AcyclicUnlessAncestorPassed == ~cyclePassed => Acyclic

\* a three-level chain root -> child -> grandchild built without a cycle
C9_Witness ==
    /\ ~cyclePassed
    /\ \E a, b \in Widgets \ {Root} :
          /\ a # b
          /\ a \in Range(children[Root])
          /\ b \in Range(children[a])
    /\ Acyclic

(* C10 as claimed: after any sequence of push_back, insert, emplace_back,  *)
(* erase and clear calls, each widget occurs at most once across all child *)
(* sequences.                                                               *)
C10_ExclusiveOwnership == Exclusive

(* C10 amended: each widget occurs at most once across all child sequences *)
(* as long as no push_back or insert call was handed a widget that was     *)
(* already a child of some widget; then a child erased from its parent, or *)
(* cleared with it, is referenced by no widget.                            *)
C10_ExclusiveUnlessOwnedPassed ==
    /\ ~ownedPassed => Exclusive
    /\ ~ownedPassed => \A w \in Widgets \ created : Occurrences(children, w) = 0

\* two children under the root, one of them with a child of its own, each
\* widget under one parent only
C10_Witness ==
    /\ ~ownedPassed
    /\ TotalSlots(children) = MaxSlots
    /\ \E a \in Range(children[Root]) : a # Root /\ children[a] # <<>>
    /\ Exclusive

----------------------------------------------------------------------------
(* context and renderer.  A float is modelled by its value in tenths, so   *)
(* -0.5f is -5 and 1.f is 10.  The renderer behind the context records     *)
(* every member function the context invokes on it.                        *)

\* struct vertex { vec2 position; color color; }
vertex(position, col) == [position |-> position, color |-> col]

BeginPass       == [op |-> "begin_pass"]
EndPass         == [op |-> "end_pass"]
DrawCall(batch) == [op |-> "draw", vertices |-> batch]

\* the vertices context::draw builds: vec2{x, y} and color{1.f}
context_vertices ==
    << vertex(<<-5, -5>>, tvec_fill(10, ColorDim)),
       vertex(<<5, -5>>,  tvec_fill(10, ColorDim)),
       vertex(<<0, 5>>,   tvec_fill(10, ColorDim)) >>

\* the submission made before the pass is begun
context_draw_unbracketed(log) ==
    log \o << DrawCall(context_vertices), BeginPass >>

\* context::draw: _renderer->begin_pass(); _renderer->draw(vertices);
context_draw(log) ==
    log \o << BeginPass, DrawCall(context_vertices) >>

\* context::draw invokes widget::draw on no widget
context_draw_widgets(c, d) == d

\* context::update: an empty body
context_update(log) == log

CtxNodes == 1 .. CtxWidgets

RECURSIVE SortedSeq(_)
SortedSeq(S) ==
    IF S = {} THEN <<>>
    ELSE LET m == CHOOSE x \in S : \A y \in S : x <= y
         IN  <<m>> \o SortedSeq(S \ {m})

\* the trees of n widgets in which every widget but the root was appended to
\* a widget constructed before it
TreesOf(n) ==
    { [w \in CtxNodes |-> SortedSeq({x \in 2 .. n : p[x] = w})] :
        p \in {q \in [2 .. n -> 1 .. n] : \A x \in 2 .. n : q[x] < x} }

InitCtx ==
    /\ \E n \in CtxNodes :
          /\ children \in TreesOf(n)
          /\ created = 1 .. n
    /\ held = {Root}
    /\ CtxIdle
    /\ VecIdle /\ SeqBookIdle /\ TreeBookIdle

CtxDraw ==
    /\ Len(trace) < MaxCalls
    /\ calls' = context_draw(calls)
    /\ drawn' = context_draw_widgets(children, drawn)
    /\ trace' = Append(trace, "draw")
    /\ UNCHANGED <<vecVars, treeVars, seqBook, treeBook>>

CtxUpdate ==
    /\ Len(trace) < MaxCalls
    /\ calls' = context_update(calls)
    /\ trace' = Append(trace, "update")
    /\ UNCHANGED <<drawn, vecVars, treeVars, seqBook, treeBook>>

NextCtx == CtxDraw \/ CtxUpdate

SpecCtx == InitCtx /\ [][NextCtx]_vars

----------------------------------------------------------------------------
NumDraws(tr) == Cardinality({i \in DOMAIN tr : tr[i] = "draw"})

\* a pass is open: the last begin_pass has no end_pass after it
PassOpen(log) ==
    \E j \in DOMAIN log :
        /\ log[j].op = "begin_pass"
        /\ \A k \in (j + 1) .. Len(log) : log[k].op # "end_pass"

\* the triangle the recording renderer is expected to receive
ExpectedTriangle ==
    << [position |-> <<-5, -5>>, color |-> <<10, 10, 10, 10>>],
       [position |-> <<5, -5>>,  color |-> <<10, 10, 10, 10>>],
       [position |-> <<0, 5>>,   color |-> <<10, 10, 10, 10>>] >>

(* C1: one call to context.draw() makes exactly the renderer calls         *)
(* begin_pass(), draw(the white triangle), end_pass(), and the pass is     *)
(* closed when draw() returns.                                              *)
C1_DrawBracketsPass ==
    NumDraws(trace) = 1 =>
        /\ calls = << BeginPass, DrawCall(ExpectedTriangle), EndPass >>
        /\ ~PassOpen(calls)

\* the widgets below and including w, parent first, children left to right
RECURSIVE Preorder(_, _)
RECURSIVE PreorderAll(_, _)
Preorder(c, w) == <<w>> \o PreorderAll(c, c[w])
PreorderAll(c, ws) ==
    IF ws = <<>> THEN <<>>
    ELSE Preorder(c, Head(ws)) \o PreorderAll(c, Tail(ws))

RECURSIVE Repeat(_, _)
Repeat(s, n) == IF n = 0 THEN <<>> ELSE s \o Repeat(s, n - 1)

(* C2: every context.draw() invokes widget::draw on every widget of the    *)
(* tree exactly once, depth-first, each parent before its children and     *)
(* siblings left to right.                                                  *)
C2_DrawTraversesTree ==
    drawn = Repeat(Preorder(children, Root), NumDraws(trace))

(* C3: across any sequence of context.update() and context.draw() calls,   *)
(* every renderer.draw(vertices) is issued after a begin_pass() with no    *)
(* end_pass() between the two; renderer.draw is never the first call.      *)
C3_DrawInsideOpenPass ==
    \A i \in DOMAIN calls :
        calls[i].op = "draw" =>
            \E j \in 1 .. (i - 1) :
                /\ calls[j].op = "begin_pass"
                /\ \A k \in (j + 1) .. (i - 1) : calls[k].op # "end_pass"

\* two frames drawn with an update between them: two submissions recorded
C3_Witness ==
    /\ NumDraws(trace) = 2
    /\ \E i \in DOMAIN trace : trace[i] = "update"
    /\ Cardinality({i \in DOMAIN calls : calls[i].op = "draw"}) = 2

====
